---- MODULE Spec2Model ----
(***************************************************************************)
(* A model of the Kingbase SQL validation module                           *)
(* (skills/kingbase/scripts/validate.py) together with the parts of        *)
(* connect.py and config.py that its existence pass drives.                *)
(*                                                                         *)
(* SQL texts are TLA+ strings; a character is a string of length one.      *)
(* Regular expressions are values of a small pattern algebra and are       *)
(* matched by Ends, which computes, as Python's re module does by          *)
(* backtracking, every offset at which a match that starts at a given      *)
(* offset can end.                                                         *)
(***************************************************************************)
EXTENDS Integers, Sequences, FiniteSets, TLC

(***************************************************************************)
(* Characters and Python's str helpers                                     *)
(***************************************************************************)
LowerLetters == "abcdefghijklmnopqrstuvwxyz"
UpperLetters == "ABCDEFGHIJKLMNOPQRSTUVWXYZ"
DigitChars == "0123456789"

CharsOf(s) == {SubSeq(s, k, k) : k \in 1..Len(s)}

LowerSet == CharsOf(LowerLetters)
UpperSet == CharsOf(UpperLetters)
DigitSet == CharsOf(DigitChars)
\* \s of the re module, and the characters str.strip() removes
SpaceSet == {" ", "\n", "\t", "\r"}
\* \w of the re module
WordSet == LowerSet \cup UpperSet \cup DigitSet \cup {"_"}

CharAt(s, k) == SubSeq(s, k, k)

\* str.lower() of one character
LowerOf == [c \in UpperSet |->
              CharAt(LowerLetters, CHOOSE k \in 1..26 : CharAt(UpperLetters, k) = c)]

LowerChar(c) == IF c \in UpperSet THEN LowerOf[c] ELSE c

\* str.lower()
RECURSIVE Lower(_)
Lower(s) ==
    IF s = "" THEN "" ELSE LowerChar(CharAt(s, 1)) \o Lower(SubSeq(s, 2, Len(s)))

\* str.count(sub) for a non-empty sub: non-overlapping occurrences, left to right
RECURSIVE CountFrom(_, _, _)
CountFrom(s, sub, k) ==
    IF k + Len(sub) - 1 > Len(s) THEN 0
    ELSE IF SubSeq(s, k, k + Len(sub) - 1) = sub
         THEN 1 + CountFrom(s, sub, k + Len(sub))
         ELSE CountFrom(s, sub, k + 1)

Count(s, sub) == CountFrom(s, sub, 1)

\* str.strip()
RECURSIVE LStrip(_)
LStrip(s) == IF Len(s) > 0 /\ Head(s) \in SpaceSet THEN LStrip(Tail(s)) ELSE s

RECURSIVE RStrip(_)
RStrip(s) ==
    IF Len(s) > 0 /\ CharAt(s, Len(s)) \in SpaceSet
    THEN RStrip(SubSeq(s, 1, Len(s) - 1))
    ELSE s

Strip(s) == RStrip(LStrip(s))

\* str(n) for a natural number
Str(n) == ToString(n)

\* `sub in s`
Contains(s, sub) ==
    \E i \in 0..(Len(s) - Len(sub)) : SubSeq(s, i + 1, i + Len(sub)) = sub

\* str.rstrip(chars)
RECURSIVE RStripChars(_, _)
RStripChars(s, chars) ==
    IF Len(s) > 0 /\ CharAt(s, Len(s)) \in chars
    THEN RStripChars(SubSeq(s, 1, Len(s) - 1), chars)
    ELSE s

\* str.upper()
UpperChar(c) ==
    IF c \in LowerSet
    THEN CharAt(UpperLetters, CHOOSE k \in 1..26 : CharAt(LowerLetters, k) = c)
    ELSE c

RECURSIVE Upper(_)
Upper(s) ==
    IF s = "" THEN "" ELSE UpperChar(CharAt(s, 1)) \o Upper(SubSeq(s, 2, Len(s)))

\* the place of a word character in the order of the code points
Ord(c) ==
    LET order == DigitChars \o UpperLetters \o "_" \o LowerLetters
    IN  CHOOSE k \in 1..Len(order) : CharAt(order, k) = c

\* a < b for two str values: the first differing character decides, a proper
\* prefix comes first
RECURSIVE StrLess(_, _)
StrLess(a, b) ==
    IF b = "" THEN FALSE
    ELSE IF a = "" THEN TRUE
    ELSE IF CharAt(a, 1) = CharAt(b, 1)
         THEN StrLess(SubSeq(a, 2, Len(a)), SubSeq(b, 2, Len(b)))
         ELSE Ord(CharAt(a, 1)) < Ord(CharAt(b, 1))

\* a variant that sorts in descending order
RECURSIVE sorted_descending(_)
sorted_descending(S) ==
    IF S = {} THEN <<>>
    ELSE LET m == CHOOSE x \in S : \A y \in S : x = y \/ StrLess(y, x)
         IN  <<m>> \o sorted_descending(S \ {m})

\* sorted(keys) for a set of str
RECURSIVE sorted(_)
sorted(S) ==
    IF S = {} THEN <<>>
    ELSE LET m == CHOOSE x \in S : \A y \in S : x = y \/ StrLess(x, y)
         IN  <<m>> \o sorted(S \ {m})

(***************************************************************************)
(* Regular expressions.  Offsets count the characters before a position,   *)
(* so a match of s from offset i to offset j covers SubSeq(s, i+1, j).     *)
(***************************************************************************)
Lit(str) == [t |-> "lit", s |-> str]
Cls(set) == [t |-> "cls", c |-> set]
NotCls(set) == [t |-> "ncls", c |-> set]
AnyChar == [t |-> "dot"]
Cat(rs) == [t |-> "cat", rs |-> rs]
Alt(rs) == [t |-> "alt", rs |-> rs]
Star(r) == [t |-> "star", r |-> r]
Plus(r) == [t |-> "cat", rs |-> <<r, [t |-> "star", r |-> r]>>]
Opt(r) == [t |-> "alt", rs |-> <<r, [t |-> "lit", s |-> ""]>>]
NotAhead(r) == [t |-> "nla", r |-> r]
WordB == [t |-> "wb"]
EndOfText == [t |-> "eos"]

IsWordAt(s, k) == k >= 1 /\ k <= Len(s) /\ CharAt(s, k) \in WordSet

RECURSIVE Ends(_, _, _)
RECURSIVE CatEnds(_, _, _, _)
RECURSIVE StarEnds(_, _, _, _)

\* the offsets at which a match of r that starts at offset i of s can end
Ends(r, s, i) ==
    CASE r.t = "lit" ->
           IF i + Len(r.s) <= Len(s) /\ SubSeq(s, i + 1, i + Len(r.s)) = r.s
           THEN {i + Len(r.s)} ELSE {}
      [] r.t = "cls" ->
           IF i < Len(s) /\ CharAt(s, i + 1) \in r.c THEN {i + 1} ELSE {}
      [] r.t = "ncls" ->
           IF i < Len(s) /\ CharAt(s, i + 1) \notin r.c THEN {i + 1} ELSE {}
      [] r.t = "dot" ->
           IF i < Len(s) /\ CharAt(s, i + 1) # "\n" THEN {i + 1} ELSE {}
      [] r.t = "cat" -> CatEnds(r.rs, 1, s, {i})
      [] r.t = "alt" -> UNION {Ends(r.rs[k], s, i) : k \in 1..Len(r.rs)}
      [] r.t = "star" -> StarEnds(r.r, s, {i}, {i})
      [] r.t = "nla" -> IF Ends(r.r, s, i) = {} THEN {i} ELSE {}
      [] r.t = "wb" -> IF IsWordAt(s, i) # IsWordAt(s, i + 1) THEN {i} ELSE {}
      [] r.t = "eos" ->
           IF i = Len(s) \/ (i = Len(s) - 1 /\ CharAt(s, Len(s)) = "\n")
           THEN {i} ELSE {}

CatEnds(rs, k, s, from) ==
    IF k > Len(rs) \/ from = {} THEN from
    ELSE CatEnds(rs, k + 1, s, UNION {Ends(rs[k], s, i) : i \in from})

StarEnds(r, s, frontier, seen) ==
    LET next == UNION {Ends(r, s, i) : i \in frontier} \ seen
    IN  IF next = {} THEN seen ELSE StarEnds(r, s, next, seen \cup next)

\* re.search(r, s): some match exists
Search(r, s) ==
    IF r.t = "cat" /\ r.rs[1].t = "lit"
    THEN \* a match can only start where the leading literal occurs
         LET first == r.rs[1].s
         IN  \E i \in 0..(Len(s) - Len(first)) :
                /\ SubSeq(s, i + 1, i + Len(first)) = first
                /\ CatEnds(r.rs, 2, s, {i + Len(first)}) # {}
    ELSE \E i \in 0..Len(s) : Ends(r, s, i) # {}

\* re.search(r, s, re.IGNORECASE) for a pattern written in lower case whose
\* character classes are closed under case
SearchI(r, s) == Search(r, Lower(s))

WS0 == Star(Cls(SpaceSet))
WS1 == Plus(Cls(SpaceSet))
Digits1 == Plus(Cls(DigitSet))
WordChars1 == Plus(Cls(WordSet))

(***************************************************************************)
(* Issues and results                                                      *)
(***************************************************************************)
ERROR == "error"
WARNING == "warning"
INFO == "info"
None == "None"

ValidationIssue(sev, cat, msg, sug) ==
    [severity |-> sev, category |-> cat, message |-> msg, suggestion |-> sug]

ValidationResult(valid, iss) == [is_valid |-> valid, issues |-> iss]

\* a variant that lets any issue, not only an Error, count against validity
has_errors_any(iss) == Len(iss) # 0

\* any(i.severity == ValidationSeverity.ERROR for i in issues)
has_errors(iss) == \E k \in 1..Len(iss) : iss[k].severity = ERROR

(***************************************************************************)
(* format_validation_result.  The icons of the report are written by their *)
(* code points: U+2713 check mark, U+2717 ballot x, U+26A0 warning sign,   *)
(* U+2139 information source, U+2192 rightwards arrow.                     *)
(***************************************************************************)
\* ValidationResult.get_errors / get_warnings / get_info
get_errors(result) == SelectSeq(result.issues, LAMBDA i : i.severity = ERROR)
get_warnings(result) == SelectSeq(result.issues, LAMBDA i : i.severity = WARNING)
get_info(result) == SelectSeq(result.issues, LAMBDA i : i.severity = INFO)

\* a variant that prints the two counts of a passed result in the other order
SummaryLine_Swapped(result) ==
    LET errors == Len(get_errors(result))
        warnings == Len(get_warnings(result))
        info == Len(get_info(result))
    IN  IF result.is_valid /\ warnings = 0 /\ info = 0
        THEN "(U+2713) SQL validation passed - No issues found"
        ELSE IF result.is_valid
        THEN "(U+2713) SQL validation passed - " \o Str(info)
                 \o " warning(s), " \o Str(warnings) \o " info"
        ELSE "(U+2717) SQL validation failed - " \o Str(errors)
                 \o " error(s), " \o Str(info) \o " warning(s), "
                 \o Str(warnings) \o " info"

\* the summary line
SummaryLine(result) ==
    LET errors == Len(get_errors(result))
        warnings == Len(get_warnings(result))
        info == Len(get_info(result))
    IN  IF result.is_valid /\ warnings = 0 /\ info = 0
        THEN "(U+2713) SQL validation passed - No issues found"
        ELSE IF result.is_valid
        THEN "(U+2713) SQL validation passed - " \o Str(warnings)
                 \o " warning(s), " \o Str(info) \o " info"
        ELSE "(U+2717) SQL validation failed - " \o Str(errors)
                 \o " error(s), " \o Str(warnings) \o " warning(s), "
                 \o Str(info) \o " info"

\* the dict `categories`: every category of the result with its issues, in
\* the order of the issue list
categories(result) ==
    [c \in {result.issues[k].category : k \in 1..Len(result.issues)} |->
        SelectSeq(result.issues, LAMBDA i : i.category = c)]

icon(severity) ==
    CASE severity = ERROR -> "(U+2717)"
      [] severity = WARNING -> "(U+26A0)"
      [] severity = INFO -> "(U+2139)"

\* `if issue.suggestion`: neither None nor the empty string
HasSuggestion(issue) == issue.suggestion # None /\ issue.suggestion # ""

IssueLine(issue) == "  " \o icon(issue.severity) \o " " \o issue.message

SuggestionLine(issue) == "     (U+2192) " \o issue.suggestion

\* the lines of one issue
IssueLines(issue) ==
    <<IssueLine(issue)>> \o
    (IF HasSuggestion(issue) THEN <<SuggestionLine(issue)>> ELSE <<>>)

RECURSIVE IssuesLines(_)
IssuesLines(iss) ==
    IF iss = <<>> THEN <<>> ELSE IssueLines(Head(iss)) \o IssuesLines(Tail(iss))

\* the lines of the sections of the categories `keys`, in that order
RECURSIVE SectionLines(_, _)
SectionLines(keys, groups) ==
    IF keys = <<>> THEN <<>>
    ELSE <<"\n" \o Upper(Head(keys)) \o ":">> \o IssuesLines(groups[Head(keys)])
         \o SectionLines(Tail(keys), groups)

\* the list `lines` when the function returns
ReportLines(result) ==
    <<SummaryLine(result)>> \o
    SectionLines(sorted(DOMAIN categories(result)), categories(result))

\* "\n".join(lines)
RECURSIVE JoinLines(_)
JoinLines(ls) ==
    IF ls = <<>> THEN ""
    ELSE IF Len(ls) = 1 THEN ls[1]
    ELSE ls[1] \o "\n" \o JoinLines(Tail(ls))

format_validation_result(result) == JoinLines(ReportLines(result))

(***************************************************************************)
(* Rule catalogs                                                           *)
(***************************************************************************)
SQL_INJECTION_PATTERNS ==
    << <<Cat(<<Lit("'"), WS0, Lit(";"), WS0, Lit("drop"), WS1, Lit("table")>>),
         "Potential DROP TABLE injection">>,
       <<Cat(<<Lit("'"), WS0, Lit(";"), WS0, Lit("delete"), WS1, Lit("from")>>),
         "Potential DELETE injection">>,
       <<Cat(<<Lit("'"), WS0, Lit(";"), WS0, Lit("exec"), WS0, Lit("(")>>),
         "Potential EXEC injection">>,
       <<Cat(<<Lit("'"), WS0, Lit("or"), WS1, Opt(Lit("'")), Digits1, Opt(Lit("'")),
               WS0, Lit("="), WS0, Lit("'"), Digits1>>),
         "Potential OR-based injection">>,
       <<Cat(<<Lit("'"), WS0, Lit("and"), WS1, Opt(Lit("'")), Digits1, Opt(Lit("'")),
               WS0, Lit("="), WS0, Lit("'"), Digits1>>),
         "Potential AND-based injection">>,
       <<Cat(<<Lit("'"), WS0, Lit(";"), WS0, Lit("--")>>),
         "Comment-based injection">>,
       <<Lit("admin'--"), "Comment-based authentication bypass">>,
       <<Lit("admin'#"), "Comment-based authentication bypass">>,
       <<Cat(<<Lit("'"), WS1, Lit("or"), WS1, Lit("1"), WS0, Lit("="), WS0, Lit("1")>>),
         "Classic tautology injection">>,
       <<Cat(<<Lit("union"), WS1, Lit("select")>>),
         "Potential UNION-based injection">> >>

PERFORMANCE_PATTERNS ==
    << <<Cat(<<Lit("select"), WS1, Lit("*"), WS1, Lit("from")>>),
         "SELECT * can be inefficient, specify columns">>,
       <<Cat(<<Lit("select"), WS1, Lit("*"), WS1, Lit("from"), WS1, WordChars1, WS1,
               Lit("where"), WS1, WordChars1, WS1, Lit("like"), WS1, Lit("'%"),
               Star(NotCls({"%"})), Lit("%'")>>),
         "Leading wildcard in LIKE prevents index use">>,
       <<Cat(<<Lit("where"), WS1, Lit("substr(")>>),
         "Function on column in WHERE prevents index use">>,
       <<Cat(<<Lit("where"), WS1, Lit("substring(")>>),
         "Function on column in WHERE prevents index use">>,
       <<Cat(<<Lit("where"), WS1, Lit("lower(")>>),
         "Function on column in WHERE prevents index use">>,
       <<Cat(<<Lit("where"), WS1, Lit("upper(")>>),
         "Function on column in WHERE prevents index use">>,
       <<Cat(<<Lit("order"), WS1, Lit("by"), WS1, Digits1,
               Star(Cat(<<WS0, Lit(","), WS0, Digits1>>))>>),
         "ORDER BY ordinal position is fragile">> >>

\* read by no checker
NAMING_PATTERNS ==
    << <<Cat(<<WordB, Cls(UpperSet), Star(Cls(LowerSet \cup DigitSet)),
               Cls(UpperSet), Star(Cls(LowerSet \cup DigitSet)), WordB>>),
         "CamelCase detected - use snake_case for identifiers">> >>

(***************************************************************************)
(* validate_syntax                                                         *)
(***************************************************************************)
\* r';\s*$'
TerminatorPattern == Cat(<<Lit(";"), WS0, EndOfText>>)

\* r'SELECT\s+(?!.*\bFROM\b)'
SelectWithoutFromPattern ==
    Cat(<<Lit("select"), WS1,
          NotAhead(Cat(<<Star(AnyChar), WordB, Lit("from"), WordB>>))>>)

EmptyIssue == ValidationIssue(ERROR, "syntax", "Empty SQL statement", None)

ParenIssue(open_parens, close_parens) ==
    ValidationIssue(ERROR, "syntax",
        "Unbalanced parentheses: " \o Str(open_parens) \o " open, "
            \o Str(close_parens) \o " close",
        "Ensure all opening parentheses have matching closing parentheses")

QuoteIssue ==
    ValidationIssue(ERROR, "syntax", "Unbalanced single quotes",
        "Ensure all single quotes are properly closed")

SemicolonIssue ==
    ValidationIssue(INFO, "style", "Missing semicolon at end of statement",
        "Add semicolon for better SQL standards compliance")

SelectFromIssue ==
    ValidationIssue(ERROR, "syntax", "SELECT without FROM clause",
        "Check if SELECT statement is properly formed")

\* a variant that counts every single quote, escaped or not
single_quotes_raw(sql_clean) == Count(sql_clean, "'")

\* sql_clean.count("'") - sql_clean.count("\\'")
single_quotes(sql_clean) == Count(sql_clean, "'") - Count(sql_clean, "\\'")

\* a variant that only notices parentheses left open
parens_left_open(open_parens, close_parens) == open_parens > close_parens

\* open_parens != close_parens
parens_differ(open_parens, close_parens) == open_parens # close_parens

\* a variant that stops at the first Error it finds
SyntaxChecks_StopAtError(sql_clean) ==
    LET open_parens == Count(sql_clean, "(")
        close_parens == Count(sql_clean, ")")
    IN  IF parens_differ(open_parens, close_parens)
        THEN <<ParenIssue(open_parens, close_parens)>>
        ELSE IF single_quotes(sql_clean) % 2 # 0
        THEN <<QuoteIssue>>
        ELSE (IF ~Search(TerminatorPattern, sql_clean)
              THEN <<SemicolonIssue>> ELSE <<>>)
             \o (IF SearchI(SelectWithoutFromPattern, sql_clean)
                 THEN <<SelectFromIssue>> ELSE <<>>)

\* the four checks made on a non-empty statement, in their order
SyntaxChecks(sql_clean) ==
    LET open_parens == Count(sql_clean, "(")
        close_parens == Count(sql_clean, ")")
    IN  (IF parens_differ(open_parens, close_parens)
         THEN <<ParenIssue(open_parens, close_parens)>> ELSE <<>>)
        \o (IF single_quotes(sql_clean) % 2 # 0 THEN <<QuoteIssue>> ELSE <<>>)
        \o (IF ~Search(TerminatorPattern, sql_clean)
            THEN <<SemicolonIssue>> ELSE <<>>)
        \o (IF SearchI(SelectWithoutFromPattern, sql_clean)
            THEN <<SelectFromIssue>> ELSE <<>>)

\* a variant without the early return on an empty statement
validate_syntax_no_return(sql) ==
    LET sql_clean == Strip(sql)
        issues == (IF sql_clean = "" THEN <<EmptyIssue>> ELSE <<>>)
                  \o SyntaxChecks(sql_clean)
    IN  ValidationResult(Len(issues) = 0, issues)

validate_syntax(sql) ==
    LET sql_clean == Strip(sql)
        issues == SyntaxChecks(sql_clean)
    IN  IF sql_clean = ""
        THEN ValidationResult(FALSE, <<EmptyIssue>>)
        ELSE ValidationResult(Len(issues) = 0, issues)

(***************************************************************************)
(* validate_security                                                       *)
(***************************************************************************)
InjectionIssue(message) ==
    ValidationIssue(ERROR, "security", message,
        "Use parameterized queries instead of string concatenation")

\* r"(password|passwd|pwd)\s*=\s*'[^{']+\""
CredentialPattern ==
    Cat(<<Alt(<<Lit("password"), Lit("passwd"), Lit("pwd")>>), WS0, Lit("="), WS0,
          Lit("'"), Plus(NotCls({"{", "'"})), Lit("\"")>>)

CredentialIssue ==
    ValidationIssue(WARNING, "security", "Possible hardcoded password in query",
        "Use parameterized queries for sensitive data")

\* a variant that reports the first matching signature only
RECURSIVE InjectionIssues_FirstOnly(_, _)
InjectionIssues_FirstOnly(low, k) ==
    IF k > Len(SQL_INJECTION_PATTERNS) THEN <<>>
    ELSE IF Search(SQL_INJECTION_PATTERNS[k][1], low)
         THEN <<InjectionIssue(SQL_INJECTION_PATTERNS[k][2])>>
         ELSE InjectionIssues_FirstOnly(low, k + 1)

RECURSIVE InjectionIssues(_, _)
InjectionIssues(low, k) ==
    IF k > Len(SQL_INJECTION_PATTERNS) THEN <<>>
    ELSE (IF Search(SQL_INJECTION_PATTERNS[k][1], low)
          THEN <<InjectionIssue(SQL_INJECTION_PATTERNS[k][2])>> ELSE <<>>)
         \o InjectionIssues(low, k + 1)

\* a variant whose flag follows its findings
validate_security_flagged(sql) ==
    LET low == Lower(sql)
        issues ==
            InjectionIssues(low, 1)
            \o (IF Search(CredentialPattern, low) THEN <<CredentialIssue>> ELSE <<>>)
    IN  ValidationResult(~has_errors(issues), issues)

validate_security(sql) ==
    LET low == Lower(sql)
        issues ==
            InjectionIssues(low, 1)
            \o (IF Search(CredentialPattern, low) THEN <<CredentialIssue>> ELSE <<>>)
    IN  ValidationResult(TRUE, issues)

(***************************************************************************)
(* validate_performance                                                    *)
(***************************************************************************)
AntiPatternIssue(message) == ValidationIssue(WARNING, "performance", message, None)

NoLimitIssue ==
    ValidationIssue(INFO, "performance", "No LIMIT clause on SELECT statement",
        "Consider adding LIMIT to prevent large result sets")

NoWhereIssue ==
    ValidationIssue(WARNING, "performance", "DELETE/UPDATE without WHERE clause",
        "Ensure WHERE clause is present to avoid full table operations")

\* r'SELECT.+FROM'
SelectFromPattern == Cat(<<Lit("select"), Plus(AnyChar), Lit("from")>>)
\* r'\bLIMIT\b'
LimitPattern == Cat(<<WordB, Lit("limit"), WordB>>)
\* r'\b(DELETE|UPDATE)\b'
MutationPattern == Cat(<<WordB, Alt(<<Lit("delete"), Lit("update")>>), WordB>>)
\* r'\bWHERE\b'
WherePattern == Cat(<<WordB, Lit("where"), WordB>>)

RECURSIVE AntiPatternIssues(_, _)
AntiPatternIssues(low, k) ==
    IF k > Len(PERFORMANCE_PATTERNS) THEN <<>>
    ELSE (IF Search(PERFORMANCE_PATTERNS[k][1], low)
          THEN <<AntiPatternIssue(PERFORMANCE_PATTERNS[k][2])>> ELSE <<>>)
         \o AntiPatternIssues(low, k + 1)

\* a variant whose flag is false as soon as it reports anything
validate_performance_strict(sql) ==
    LET low == Lower(sql)
        issues ==
            AntiPatternIssues(low, 1)
            \o (IF Search(SelectFromPattern, low) /\ ~Search(LimitPattern, low)
                THEN <<NoLimitIssue>> ELSE <<>>)
            \o (IF Search(MutationPattern, low) /\ ~Search(WherePattern, low)
                THEN <<NoWhereIssue>> ELSE <<>>)
    IN  ValidationResult(Len(issues) = 0, issues)

\* a variant that looks for a missing WHERE only when nothing else was found
validate_performance_elif(sql) ==
    LET low == Lower(sql)
        found ==
            AntiPatternIssues(low, 1)
            \o (IF Search(SelectFromPattern, low) /\ ~Search(LimitPattern, low)
                THEN <<NoLimitIssue>> ELSE <<>>)
        issues ==
            found
            \o (IF found = <<>> /\ Search(MutationPattern, low)
                   /\ ~Search(WherePattern, low)
                THEN <<NoWhereIssue>> ELSE <<>>)
    IN  ValidationResult(TRUE, issues)

validate_performance(sql) ==
    LET low == Lower(sql)
        issues ==
            AntiPatternIssues(low, 1)
            \o (IF Search(SelectFromPattern, low) /\ ~Search(LimitPattern, low)
                THEN <<NoLimitIssue>> ELSE <<>>)
            \o (IF Search(MutationPattern, low) /\ ~Search(WherePattern, low)
                THEN <<NoWhereIssue>> ELSE <<>>)
    IN  ValidationResult(TRUE, issues)

(***************************************************************************)
(* Identifier extraction shared by validate_naming and                     *)
(* validate_table_exists: a keyword anchor followed by the capture group   *)
(* of one identifier, scanned as re.finditer / re.findall do: leftmost     *)
(* match first, then on from the end of that match.                        *)
(***************************************************************************)
\* the capture group: [a-zA-Z_] then any number of [a-zA-Z0-9_]
IdentifierGroup ==
    Cat(<<Cls(LowerSet \cup UpperSet \cup {"_"}),
          Star(Cls(LowerSet \cup UpperSet \cup DigitSet \cup {"_"}))>>)

SetMax(S) == CHOOSE m \in S : \A x \in S : x <= m

\* The match of anchor.group that starts at offset i of low, as the pair of
\* offsets delimiting the group.  Both quantifiers are greedy and the group
\* cannot start on white space, so the anchor ends where the white space
\* ends and the group takes the longest run of identifier characters.
GroupSpan(anchor, low, i) ==
    LET gs == CHOOSE e \in Ends(anchor, low, i) : Ends(IdentifierGroup, low, e) # {}
    IN  <<gs, SetMax(Ends(IdentifierGroup, low, gs))>>

RECURSIVE Matches(_, _, _, _)
\* the successive matches found from offset `from` on, each with its start()
\* and its group(1); matching ignores case, the group is text of the original
Matches(anchor, sql, low, from) ==
    LET starts == {i \in from..Len(low) :
                      Ends(Cat(<<anchor, IdentifierGroup>>), low, i) # {}}
    IN  IF starts = {} THEN <<>>
        ELSE LET i == CHOOSE m \in starts : \A x \in starts : m <= x
                 span == GroupSpan(anchor, low, i)
             IN  <<[start |-> i, group |-> SubSeq(sql, span[1] + 1, span[2])]>>
                 \o Matches(anchor, sql, low, span[2])

\* re.finditer(pattern, sql, re.IGNORECASE)
finditer(anchor, sql) == Matches(anchor, sql, Lower(sql), 0)

\* re.findall(pattern, sql, re.IGNORECASE) for a pattern with one group
findall(anchor, sql) ==
    LET ms == finditer(anchor, sql) IN [k \in 1..Len(ms) |-> ms[k].group]

(***************************************************************************)
(* validate_naming                                                         *)
(***************************************************************************)
identifier_patterns ==
    << Cat(<<WordB, Lit("from"), WS1>>),
       Cat(<<WordB, Lit("join"), WS1>>),
       Cat(<<WordB, Lit("insert"), WS1, Lit("into"), WS1>>),
       Cat(<<WordB, Lit("update"), WS1>>),
       Cat(<<WordB, Lit("create"), WS1, Lit("table"), WS1>>) >>

\* r'[a-z][A-Z]', matched with case
MixedCasePattern == Cat(<<Cls(LowerSet), Cls(UpperSet)>>)

NamingIssue(identifier) ==
    ValidationIssue(INFO, "naming",
        "Identifier '" \o identifier \o "' uses mixed case",
        "Consider using snake_case for consistency")

RECURSIVE MixedCaseIssues(_, _)
MixedCaseIssues(matches, k) ==
    IF k > Len(matches) THEN <<>>
    ELSE (IF Search(MixedCasePattern, matches[k].group)
          THEN <<NamingIssue(matches[k].group)>> ELSE <<>>)
         \o MixedCaseIssues(matches, k + 1)

RECURSIVE NamingIssues(_, _)
NamingIssues(sql, p) ==
    IF p > Len(identifier_patterns) THEN <<>>
    ELSE MixedCaseIssues(finditer(identifier_patterns[p], sql), 1)
         \o NamingIssues(sql, p + 1)

validate_naming(sql) == ValidationResult(TRUE, NamingIssues(sql, 1))

(***************************************************************************)
(* Table extraction of validate_table_exists                               *)
(***************************************************************************)
\* r'\b(?:FROM|JOIN|INSERT\s+INTO|UPDATE|CREATE\s+TABLE|DROP\s+TABLE)\s+'
table_pattern ==
    Cat(<<WordB,
          Alt(<<Lit("from"), Lit("join"), Cat(<<Lit("insert"), WS1, Lit("into")>>),
                Lit("update"), Cat(<<Lit("create"), WS1, Lit("table")>>),
                Cat(<<Lit("drop"), WS1, Lit("table")>>)>>),
          WS1>>)

ExcludedWords == {"select", "where", "order", "group"}

\* re.findall(table_pattern, sql, re.IGNORECASE)
FoundTables(sql) == findall(table_pattern, sql)

\* set([t.lower() for t in tables if not t.lower() in (...)])
TableSet(sql) ==
    LET found == FoundTables(sql)
    IN  {Lower(found[k]) : k \in 1..Len(found)} \ ExcludedWords

(***************************************************************************)
(* Inputs                                                                  *)
(***************************************************************************)
\* a text is the concatenation of at most MaxFrags of these fragments
MaxFrags == 2

Fragments ==
    << "SELECT * FROM users", "select a", " FROM UserAccounts",
       " JOIN orderItems o", " WHERE n = 'x' OR '1'='1'", ";", "(", "'", " ",
       "UPDATE Users SET a = 1", "DELETE FROM " >>

RECURSIVE Join(_)
Join(fs) == IF fs = <<>> THEN "" ELSE Head(fs) \o Join(Tail(fs))

\* every text made of at most MaxFrags of the fragments
TextsOf(fragments) ==
    UNION {{Join([k \in 1..n |-> fragments[f[k]]]) :
               f \in [1..n -> 1..Len(fragments)]} : n \in 0..MaxFrags}

\* the schema names a configuration can carry
Schemas == {"public", "app"}

\* the table names the catalog can list for a schema
CatalogNames == {"users", "UserAccounts"}

\* the drivers connect.py can find installed
Drivers == {"psycopg2", "sqlalchemy", "none"}

Supplied == "supplied"

(***************************************************************************)
(* State                                                                   *)
(***************************************************************************)
VARIABLES
    sql,              \* validate_sql argument
    config,           \* validate_sql argument: None or a KingbaseConfig
    check_existence,  \* validate_sql argument
    pc,               \* position in validate_sql / validate_table_exists
    all_issues,       \* validate_sql local
    results,          \* the ValidationResult each function has returned so far
    schema,           \* validate_table_exists local
    tables,           \* validate_table_exists local
    existing_tables,  \* validate_table_exists local
    issues,           \* validate_table_exists local
    error,            \* the exception in flight or caught, None if none
    driver,           \* PSYCOPG2_AVAILABLE / SQLALCHEMY_AVAILABLE, once consulted
    conn,             \* the KingbaseConnection: its _connection and _engine
    listing,          \* what the catalog answered to the table listing, if asked
    connects,         \* calls of KingbaseConnection.connect in this call
    lookups,          \* table-listing queries sent to the catalog in this call
    result,           \* format_validation_result argument, None before the call
    lines,            \* format_validation_result local
    report,           \* what format_validation_result returned, None before
    wanted_schema,    \* the schema the caller of validate_sql wants looked up,
                      \* None if none; validate_sql has no parameter for it
    limit,            \* execute_query argument
    final_sql,        \* execute_query local, None before it is assigned
    query_result,     \* execute_query local `result`, returned at the end
    stored,           \* the number of rows the queried table holds
    catalogs,         \* the module-level rule lists, shared by every invocation
    threads           \* the checker invocations that run concurrently

vars == <<sql, config, check_existence, pc, all_issues, results, schema, tables,
          existing_tables, issues, error, driver, conn, listing, connects, lookups,
          result, lines, report, wanted_schema, limit, final_sql,
          query_result, stored, catalogs, threads>>

args == <<sql, config, check_existence>>
exists_locals == <<schema, tables, existing_tables, issues>>
catalog_vars == <<driver, conn, listing, connects, lookups>>
report_vars == <<result, lines, report>>
query_vars == <<limit, final_sql, query_result, stored>>
\* what validate_sql and validate_table_exists never touch
caller_vars == <<wanted_schema, report_vars, query_vars, catalogs, threads>>
\* what execute_query never touches
validation_vars == <<check_existence, all_issues, results, exists_locals, listing,
                     lookups, wanted_schema, report_vars, catalogs, threads>>

NoConnection == [_connection |-> None, _engine |-> None]
NoListing == [status |-> "not asked", rows |-> {}]

Returned(name) == name \in DOMAIN results

Return(name, r) == results' = [n \in DOMAIN results \cup {name} |->
                                 IF n = name THEN r ELSE results[n]]

\* the rule lists as the module defines them
Rules ==
    [SQL_INJECTION_PATTERNS |-> SQL_INJECTION_PATTERNS,
     PERFORMANCE_PATTERNS |-> PERFORMANCE_PATTERNS,
     NAMING_PATTERNS |-> NAMING_PATTERNS]

\* the rule lists once the module is loaded; a list holds its entries, an
\* entry being named by its place in the list as the module defines it
Loaded == [name \in DOMAIN Rules |-> [k \in 1..Len(Rules[name]) |-> k]]

\* the module is loaded and no checker runs beside the call
NoThreads ==
    /\ catalogs = Loaded
    /\ threads = <<>>

\* no execute_query call is under way
NoQuery ==
    /\ limit = 0
    /\ final_sql = None
    /\ query_result = None
    /\ stored = 0

\* the locals before the first statement of a call
FreshLocals ==
    /\ all_issues = <<>>
    /\ results = <<>>
    /\ schema = None
    /\ tables = <<>>
    /\ existing_tables = {}
    /\ issues = <<>>
    /\ error = None
    /\ driver = None
    /\ conn = NoConnection
    /\ listing = NoListing
    /\ connects = 0
    /\ lookups = 0
    /\ result = None
    /\ lines = <<>>
    /\ report = None

Fresh ==
    /\ pc = "syntax"
    /\ FreshLocals

Init ==
    /\ sql \in TextsOf(Fragments)
    /\ config \in {None, Supplied}
    /\ check_existence \in BOOLEAN
    /\ wanted_schema = None
    /\ NoQuery
    /\ NoThreads
    /\ Fresh

(***************************************************************************)
(* validate_sql: the four passes that always run                           *)
(***************************************************************************)
RunSyntax ==
    /\ pc = "syntax"
    /\ LET r == validate_syntax(sql)
       IN  /\ Return("validate_syntax", r)
           /\ all_issues' = all_issues \o r.issues
    /\ pc' = "security"
    /\ UNCHANGED <<args, caller_vars, exists_locals, error, catalog_vars>>

RunSecurity ==
    /\ pc = "security"
    /\ LET r == validate_security(sql)
       IN  /\ Return("validate_security", r)
           /\ all_issues' = all_issues \o r.issues
    /\ pc' = "performance"
    /\ UNCHANGED <<args, caller_vars, exists_locals, error, catalog_vars>>

RunPerformance ==
    /\ pc = "performance"
    /\ LET r == validate_performance(sql)
       IN  /\ Return("validate_performance", r)
           /\ all_issues' = all_issues \o r.issues
    /\ pc' = "naming"
    /\ UNCHANGED <<args, caller_vars, exists_locals, error, catalog_vars>>

RunNaming ==
    /\ pc = "naming"
    /\ LET r == validate_naming(sql)
       IN  /\ Return("validate_naming", r)
           /\ all_issues' = all_issues \o r.issues
    /\ pc' = IF check_existence THEN "exists_config" ELSE "aggregate"
    /\ UNCHANGED <<args, caller_vars, exists_locals, error, catalog_vars>>

(***************************************************************************)
(* validate_table_exists, as validate_sql calls it (no schema argument)    *)
(***************************************************************************)
\* config.py: from_env raises ValueError when KINGBASE_PORT or
\* KINGBASE_CONNECT_TIMEOUT is not an integer; nothing catches it
ExistsConfig ==
    /\ pc = "exists_config"
    /\ \/ /\ config = None
          /\ \/ /\ error' = "ValueError"
                /\ pc' = "raised"
                /\ UNCHANGED schema
             \/ /\ schema' \in Schemas
                /\ pc' = "exists_extract"
                /\ UNCHANGED error
       \/ /\ config # None
          /\ schema' \in Schemas
          /\ pc' = "exists_extract"
          /\ UNCHANGED error
    /\ UNCHANGED <<args, caller_vars, all_issues, results, tables, existing_tables, issues,
                   catalog_vars>>

\* list(set(...)): the elements in an order the caller does not control
Orderings(S) ==
    {f \in [1..Cardinality(S) -> S] : \A a, b \in 1..Cardinality(S) : f[a] = f[b] => a = b}

\* a variant that goes on to the catalog whatever was extracted
ExistsExtract_AlwaysConnect ==
    /\ pc = "exists_extract"
    /\ tables' \in Orderings(TableSet(sql))
    /\ pc' = "exists_connect"
    /\ UNCHANGED <<args, caller_vars, all_issues, results, schema, existing_tables, issues, error,
                   catalog_vars>>

ExistsExtract ==
    /\ pc = "exists_extract"
    /\ tables' \in Orderings(TableSet(sql))
    /\ IF tables' = <<>>
       THEN /\ Return("validate_table_exists", ValidationResult(TRUE, issues))
            /\ pc' = "aggregate"
       ELSE /\ pc' = "exists_connect"
            /\ UNCHANGED results
    /\ UNCHANGED <<args, caller_vars, all_issues, schema, existing_tables, issues, error,
                   catalog_vars>>

\* connect.py, KingbaseConnection.connect with _connect_psycopg2 and
\* _connect_sqlalchemy: what is left open and what is raised
ConnectOutcomes(d) ==
    CASE d = "psycopg2" ->
            {[_connection |-> "open", _engine |-> None, error |-> None],
             [_connection |-> None, _engine |-> None, error |-> "Failed to connect"],
             [_connection |-> "open", _engine |-> None, error |-> "Failed to connect"]}
      [] d = "sqlalchemy" ->
            {[_connection |-> None, _engine |-> "open", error |-> None],
             [_connection |-> None, _engine |-> None,
              error |-> "Failed to connect with SQLAlchemy"],
             [_connection |-> None, _engine |-> "open",
              error |-> "Failed to connect with SQLAlchemy"]}
      [] OTHER ->
            {[_connection |-> None, _engine |-> None,
              error |-> "No database driver available"]}

ExistsConnect ==
    /\ pc = "exists_connect"
    /\ \/ \* config.validate() fails: no driver is consulted
          /\ error' = "Invalid configuration"
          /\ pc' = "exists_except"
          /\ UNCHANGED <<driver, conn>>
       \/ /\ driver' \in Drivers
          /\ \E o \in ConnectOutcomes(driver') :
                /\ conn' = [_connection |-> o._connection, _engine |-> o._engine]
                /\ error' = o.error
                /\ pc' = IF o.error = None THEN "exists_query" ELSE "exists_except"
    /\ connects' = connects + 1
    /\ UNCHANGED <<args, caller_vars, all_issues, results, exists_locals, listing, lookups>>

\* psycopg2's default cursor yields tuples, SQLAlchemy yields rows indexed
\* by position: row['tablename'] on a tuple raises TypeError
RowsError(d, rows) ==
    IF d = "psycopg2" /\ rows # {}
    THEN "tuple indices must be integers or slices, not str"
    ELSE None

ExistsQuery ==
    /\ pc = "exists_query"
    /\ \/ \* the pooled connection of the engine cannot be opened
          /\ driver = "sqlalchemy"
          /\ error' = "connection failed"
          /\ pc' = "exists_except"
          /\ UNCHANGED <<listing, lookups, existing_tables>>
       \/ \* the catalog refuses or fails the query
          /\ listing' = [status |-> "failed", rows |-> {}]
          /\ lookups' = lookups + 1
          /\ error' = "query failed"
          /\ pc' = "exists_except"
          /\ UNCHANGED existing_tables
       \/ \* the catalog answers with the tables of the schema
          \E rows \in SUBSET CatalogNames :
             /\ listing' = [status |-> "answered", rows |-> rows]
             /\ lookups' = lookups + 1
             /\ error' = RowsError(driver, rows)
             /\ IF error' = None
                THEN /\ existing_tables' = {Lower(n) : n \in rows}
                     /\ pc' = "exists_check"
                ELSE /\ pc' = "exists_except"
                     /\ UNCHANGED existing_tables
    /\ UNCHANGED <<args, caller_vars, all_issues, results, schema, tables, issues, driver, conn,
                   connects>>

MissingTableIssue(table, sch) ==
    ValidationIssue(ERROR, "existence",
        "Table '" \o table \o "' does not exist in schema '" \o sch \o "'",
        "Verify table name or create the table first")

RECURSIVE MissingTableIssues(_, _, _, _)
MissingTableIssues(tbls, existing, sch, k) ==
    IF k > Len(tbls) THEN <<>>
    ELSE (IF tbls[k] \notin existing THEN <<MissingTableIssue(tbls[k], sch)>> ELSE <<>>)
         \o MissingTableIssues(tbls, existing, sch, k + 1)

ExistsCheck ==
    /\ pc = "exists_check"
    /\ issues' = issues \o MissingTableIssues(tables, existing_tables, schema, 1)
    /\ pc' = "exists_finally"
    /\ UNCHANGED <<args, caller_vars, all_issues, results, schema, tables, existing_tables, error,
                   catalog_vars>>

\* a variant that reports the failed verification as an Error
VerifyFailedIssue_Error(e) ==
    ValidationIssue(ERROR, "existence",
        "Could not verify table existence: " \o e,
        "Ensure database connection is working")

VerifyFailedIssue(e) ==
    ValidationIssue(WARNING, "existence",
        "Could not verify table existence: " \o e,
        "Ensure database connection is working")

\* a variant that lets the exception escape
ExistsExcept_Reraise ==
    /\ pc = "exists_except"
    /\ pc' = "raised"
    /\ UNCHANGED <<args, caller_vars, all_issues, results, exists_locals, error, catalog_vars>>

\* a variant that records the failure and tries the catalog again
ExistsExcept_Retry ==
    /\ pc = "exists_except"
    /\ issues' = Append(issues, VerifyFailedIssue(error))
    /\ pc' = "exists_connect"
    /\ UNCHANGED <<args, caller_vars, all_issues, results, schema, tables, existing_tables, error,
                   catalog_vars>>

ExistsExcept ==
    /\ pc = "exists_except"
    /\ issues' = Append(issues, VerifyFailedIssue(error))
    /\ pc' = "exists_finally"
    /\ UNCHANGED <<args, caller_vars, all_issues, results, schema, tables, existing_tables, error,
                   catalog_vars>>

\* connect.py, KingbaseConnection.close
close(c) == [_connection |-> None, _engine |-> None]

\* a variant that closes the connection at the end of the try block only
ExistsFinally_OnSuccess ==
    /\ pc = "exists_finally"
    /\ conn' = IF error = None THEN close(conn) ELSE conn
    /\ pc' = "exists_return"
    /\ UNCHANGED <<args, caller_vars, all_issues, results, exists_locals, error, driver, listing,
                   connects, lookups>>

ExistsFinally ==
    /\ pc = "exists_finally"
    /\ conn' = close(conn)
    /\ pc' = "exists_return"
    /\ UNCHANGED <<args, caller_vars, all_issues, results, exists_locals, error, driver, listing,
                   connects, lookups>>

ExistsReturn ==
    /\ pc = "exists_return"
    /\ Return("validate_table_exists", ValidationResult(Len(issues) = 0, issues))
    /\ pc' = "aggregate"
    /\ UNCHANGED <<args, caller_vars, all_issues, exists_locals, error, catalog_vars>>

(***************************************************************************)
(* validate_sql: the existence issues are appended and validity decided    *)
(***************************************************************************)
\* a variant that puts the existence issues first
Aggregate_ExistenceFirst ==
    /\ pc = "aggregate"
    /\ LET merged == IF check_existence
                     THEN results["validate_table_exists"].issues \o all_issues
                     ELSE all_issues
       IN  /\ all_issues' = merged
           /\ Return("validate_sql", ValidationResult(~has_errors(merged), merged))
    /\ pc' = "done"
    /\ UNCHANGED <<args, caller_vars, exists_locals, error, catalog_vars>>

\* a variant that takes the conjunction of the checkers' own flags
Aggregate_AndOfFlags ==
    /\ pc = "aggregate"
    /\ LET merged == IF check_existence
                     THEN all_issues \o results["validate_table_exists"].issues
                     ELSE all_issues
       IN  /\ all_issues' = merged
           /\ Return("validate_sql",
                     ValidationResult(\A n \in DOMAIN results : results[n].is_valid,
                                      merged))
    /\ pc' = "done"
    /\ UNCHANGED <<args, caller_vars, exists_locals, error, catalog_vars>>

Aggregate ==
    /\ pc = "aggregate"
    /\ LET merged == IF check_existence
                     THEN all_issues \o results["validate_table_exists"].issues
                     ELSE all_issues
       IN  /\ all_issues' = merged
           /\ Return("validate_sql", ValidationResult(~has_errors(merged), merged))
    /\ pc' = "done"
    /\ UNCHANGED <<args, caller_vars, exists_locals, error, catalog_vars>>

Next ==
    \/ RunSyntax
    \/ RunSecurity
    \/ RunPerformance
    \/ RunNaming
    \/ ExistsConfig
    \/ ExistsExtract
    \/ ExistsConnect
    \/ ExistsQuery
    \/ ExistsCheck
    \/ ExistsExcept
    \/ ExistsFinally
    \/ ExistsReturn
    \/ Aggregate

Spec == Init /\ [][Next]_vars

(***************************************************************************)
(* validate_sql(sql) as main() calls it: no config, no existence pass.     *)
(* The texts exercise the syntax, security and performance checks.         *)
(***************************************************************************)
CheckerFragments ==
    << "SELECT * FROM users", "select a", "\nFROM t", " FROM UserAccounts",
       " WHERE n = 'x' OR '1'='1'", " UNION SELECT b", "admin'--",
       " pwd = 'x'", " pwd = 'x\"", ";", "(", ")", "'", "\\'", "('", " ",
       "DELETE FROM t", "UPDATE t SET a = 1", " WHERE a = 1", " elsewhere" >>

InitMain ==
    /\ sql \in TextsOf(CheckerFragments)
    /\ config = None
    /\ check_existence = FALSE
    /\ wanted_schema = None
    /\ NoQuery
    /\ NoThreads
    /\ Fresh

NextMain ==
    \/ RunSyntax
    \/ RunSecurity
    \/ RunPerformance
    \/ RunNaming
    \/ Aggregate

SpecMain == InitMain /\ [][NextMain]_vars

(***************************************************************************)
(* validate_sql(sql) on texts that exercise the naming checker             *)
(***************************************************************************)
NamingFragments ==
    << " FROM UserAccounts", "DELETE FROM ", " JOIN orderItems o",
       "UPDATE Users SET a = 1", "INSERT INTO fooBar", "select a from t",
       "create table  myTable", " DROP TABLE oldTable", " join ", " " >>

InitNaming ==
    /\ sql \in TextsOf(NamingFragments)
    /\ config = None
    /\ check_existence = FALSE
    /\ wanted_schema = None
    /\ NoQuery
    /\ NoThreads
    /\ Fresh

SpecNaming == InitNaming /\ [][NextMain]_vars

(***************************************************************************)
(* A caller formats one of the results the call produced.  The texts give  *)
(* results with no issue, with one category and with several.              *)
(***************************************************************************)
FormatResult ==
    /\ pc = "done"
    /\ report = None
    /\ \E name \in DOMAIN results :
          /\ result' = results[name]
          /\ lines' = ReportLines(results[name])
          /\ report' = format_validation_result(results[name])
    /\ UNCHANGED <<args, wanted_schema, query_vars, catalogs, threads, pc, all_issues,
                   results, exists_locals, error, catalog_vars>>

ReportFragments ==
    << "SELECT * FROM users", "select a from t limit 1;", " FROM UserAccounts",
       " WHERE n = 'x' OR '1'='1'", "(" >>

InitReport ==
    /\ sql \in TextsOf(ReportFragments)
    /\ config \in {None, Supplied}
    /\ check_existence \in BOOLEAN
    /\ wanted_schema = None
    /\ NoQuery
    /\ NoThreads
    /\ Fresh

NextReport ==
    \/ RunSyntax
    \/ RunSecurity
    \/ RunPerformance
    \/ RunNaming
    \/ ExistsConfig
    \/ ExistsExtract
    \/ ExistsConnect
    \/ ExistsQuery
    \/ ExistsCheck
    \/ ExistsExcept
    \/ ExistsFinally
    \/ ExistsReturn
    \/ Aggregate
    \/ FormatResult

SpecReport == InitReport /\ [][NextReport]_vars

(***************************************************************************)
(* validate_sql(sql, config, check_existence) called by a caller who may   *)
(* want the existence pass to look in a schema of their choice             *)
(***************************************************************************)
\* a few texts that name tables and match signatures
FewFragments ==
    << "SELECT * FROM users", " WHERE n = 'x' OR '1'='1'", " UNION SELECT b",
       " FROM UserAccounts" >>

InitSchema ==
    /\ sql \in TextsOf(FewFragments)
    /\ config \in {None, Supplied}
    /\ check_existence \in BOOLEAN
    /\ wanted_schema \in Schemas \cup {None}
    /\ NoQuery
    /\ NoThreads
    /\ Fresh

SpecSchema == InitSchema /\ [][Next]_vars

(***************************************************************************)
(* query.py: execute_query(sql, config, limit).  The database is the       *)
(* queried table of `stored` rows; it answers a statement with at most as  *)
(* many rows as the table holds and as the statement's own outer LIMIT     *)
(* clause allows.  The fields columns and execution_time of QueryResult    *)
(* are left out.                                                           *)
(***************************************************************************)
MaxRows == 3
MaxLimit == 2

QueryResult(success, rows, row_count, err, was_limited, limit_applied) ==
    [success |-> success, rows |-> rows, row_count |-> row_count, error |-> err,
     was_limited |-> was_limited, limit_applied |-> limit_applied]

\* " LIMIT " in sql.upper().strip()
has_limit(text) == Contains(Strip(Upper(text)), " LIMIT ")

\* the statement sent to the database
FinalSql(text, lim) ==
    IF ~has_limit(text) /\ lim > 0
    THEN RStripChars(text, {";"}) \o " LIMIT " \o Str(lim)
    ELSE text

\* int(digits)
RECURSIVE StrToNat(_)
StrToNat(digits) ==
    IF digits = "" THEN 0
    ELSE 10 * StrToNat(SubSeq(digits, 1, Len(digits) - 1))
         + ((CHOOSE k \in 1..10 : CharAt(DigitChars, k) = CharAt(digits, Len(digits))) - 1)

\* the parts of a statement that ends, before trailing white space and
\* terminators, in LIMIT <n>: the text before the
\* keyword, and the number
LimitClause(text) ==
    LET core == RStripChars(text, SpaceSet \cup {";"})
        body == RStripChars(core, DigitSet)
        word == RStripChars(body, SpaceSet)
    IN  [head |-> SubSeq(word, 1, Len(word) - 5),
         keyword |-> Len(word) >= 5 /\ Upper(SubSeq(word, Len(word) - 4, Len(word))) = "LIMIT"
                     /\ (Len(word) = 5 \/ CharAt(word, Len(word) - 5) \notin WordSet),
         spaced |-> Len(word) < Len(body),
         digits |-> SubSeq(core, Len(body) + 1, Len(core))]

\* the statement ends in a LIMIT clause of its own that stands outside every
\* string literal and every parenthesis
HasOuterLimit(text) ==
    LET c == LimitClause(text)
    IN  /\ c.keyword /\ c.spaced /\ c.digits # ""
        /\ Count(c.head, "'") % 2 = 0
        /\ Count(c.head, "(") = Count(c.head, ")")

\* a statement that does not begin with SELECT, or ends in two LIMIT
\* clauses, is a syntax error
Malformed(text) ==
    \/ Len(LStrip(text)) < 7
    \/ Upper(SubSeq(LStrip(text), 1, 7)) # "SELECT "
    \/ HasOuterLimit(text) /\ HasOuterLimit(LimitClause(text).head)

\* cursor.fetchall() / db_result.fetchall(): how many rows the database can
\* answer the statement with
Answers(text, held) ==
    IF Malformed(text) THEN {}
    ELSE {n \in 0..held : HasOuterLimit(text) => n <= StrToNat(LimitClause(text).digits)}

QueryFragments ==
    << "SELECT * FROM t", " WHERE note = ' LIMIT '", " LIMIT 1", ";",
       "SELECT * FROM (SELECT a FROM t LIMIT 3) s" >>

InitQuery ==
    /\ sql \in TextsOf(QueryFragments)
    /\ config \in {None, Supplied}
    /\ check_existence = FALSE
    /\ wanted_schema = None
    /\ limit \in 0..MaxLimit
    /\ stored \in 0..MaxRows
    /\ final_sql = None
    /\ query_result = QueryResult(FALSE, <<>>, 0, None, FALSE, 0)
    /\ pc = "query_config"
    /\ NoThreads
    /\ FreshLocals

\* config.py: from_env raises ValueError when KINGBASE_PORT or
\* KINGBASE_CONNECT_TIMEOUT is not an integer; it is called outside the try
QueryConfig ==
    /\ pc = "query_config"
    /\ \/ /\ config = None
          /\ error' = "ValueError"
          /\ pc' = "raised"
       \/ /\ pc' = "query_connect"
          /\ UNCHANGED error
    /\ UNCHANGED <<sql, config, validation_vars, query_vars, driver, conn, connects>>

QueryConnect ==
    /\ pc = "query_connect"
    /\ \/ \* config.validate() fails: no driver is consulted
          /\ error' = "Invalid configuration"
          /\ pc' = "query_except"
          /\ UNCHANGED <<driver, conn>>
       \/ /\ driver' \in Drivers
          /\ \E o \in ConnectOutcomes(driver') :
                /\ conn' = [_connection |-> o._connection, _engine |-> o._engine]
                /\ error' = o.error
                /\ pc' = IF o.error = None THEN "query_prepare" ELSE "query_except"
    /\ connects' = connects + 1
    /\ UNCHANGED <<sql, config, validation_vars, query_vars>>

\* the LIMIT clause is appended unless the text holds one
QueryPrepare ==
    /\ pc = "query_prepare"
    /\ final_sql' = FinalSql(sql, limit)
    /\ query_result' =
          IF ~has_limit(sql) /\ limit > 0
          THEN [query_result EXCEPT !.was_limited = TRUE, !.limit_applied = limit]
          ELSE query_result
    /\ pc' = "query_execute"
    /\ UNCHANGED <<sql, config, validation_vars, limit, stored, error, driver,
                   conn, connects>>

\* both branches: the statement is executed and all its rows are fetched
QueryExecute ==
    /\ pc = "query_execute"
    /\ \/ \* the database refuses or fails the statement
          /\ error' = "query failed"
          /\ pc' = "query_except"
          /\ UNCHANGED query_result
       \/ \E n \in Answers(final_sql, stored) :
             /\ query_result' = [query_result EXCEPT !.rows = [k \in 1..n |-> k],
                                                     !.row_count = n,
                                                     !.success = TRUE]
             /\ pc' = "query_finally"
             /\ UNCHANGED error
    /\ UNCHANGED <<sql, config, validation_vars, limit, final_sql, stored, driver,
                   conn, connects>>

\* `except psycopg2.Error` names a module that is bound only when psycopg2
\* is installed: without it the clause itself raises NameError, which
\* leaves the function after the finally block
QueryExcept ==
    /\ pc = "query_except"
    /\ \/ /\ driver \in {"psycopg2", None}
          /\ query_result' = [query_result EXCEPT !.error = error]
          /\ UNCHANGED error
       \/ /\ driver \in {"sqlalchemy", "none", None}
          /\ error' = "NameError"
          /\ UNCHANGED query_result
    /\ pc' = "query_finally"
    /\ UNCHANGED <<sql, config, validation_vars, limit, final_sql, stored, driver,
                   conn, connects>>

QueryFinally ==
    /\ pc = "query_finally"
    /\ conn' = close(conn)
    /\ pc' = IF error = "NameError" THEN "raised" ELSE "query_return"
    /\ UNCHANGED <<sql, config, validation_vars, query_vars, error, driver,
                   connects>>

QueryReturn ==
    /\ pc = "query_return"
    /\ pc' = "query_done"
    /\ UNCHANGED <<sql, config, validation_vars, query_vars, error, driver, conn,
                   connects>>

NextQuery ==
    \/ QueryConfig
    \/ QueryConnect
    \/ QueryPrepare
    \/ QueryExecute
    \/ QueryExcept
    \/ QueryFinally
    \/ QueryReturn

SpecQuery == InitQuery /\ [][NextQuery]_vars

(***************************************************************************)
(* Two invocations of the pure checkers run at the same time on the same   *)
(* text.  An invocation of validate_security or validate_performance reads *)
(* the shared rule list once per iteration of its for loop; a step of the  *)
(* model is one iteration, and the steps of the two invocations interleave *)
(* in every order.                                                         *)
(***************************************************************************)
Threads == {1, 2}

\* the rule list the for loop of a checker iterates over
RuleList ==
    [validate_security |-> "SQL_INJECTION_PATTERNS",
     validate_performance |-> "PERFORMANCE_PATTERNS"]

\* an invocation at its first statement: issues = []
Invoked(checker) ==
    [checker |-> checker,
     at |-> IF checker \in DOMAIN RuleList THEN "loop" ELSE "body",
     k |-> 1,
     issues |-> <<>>,
     returned |-> None]

InitThreads ==
    /\ sql \in TextsOf(FewFragments)
    /\ config = None
    /\ check_existence = FALSE
    /\ wanted_schema = None
    /\ NoQuery
    /\ catalogs = Loaded
    /\ threads \in {[t \in Threads |-> Invoked(c[t])] :
                      c \in [Threads -> {"validate_syntax", "validate_security",
                                         "validate_performance", "validate_naming"}]}
    /\ Fresh

\* the issue an iteration appends when the pattern of its rule matches
RuleIssue(checker, message) ==
    IF checker = "validate_security" THEN InjectionIssue(message)
    ELSE AntiPatternIssue(message)

\* a variant whose loop takes each rule off the shared list
Iterate_Consuming(t) ==
    LET th == threads[t]
        rules == catalogs[RuleList[th.checker]]
        rule == Rules[RuleList[th.checker]][rules[1]]
    IN  /\ th.at = "loop"
        /\ IF rules = <<>>
           THEN /\ threads' = [threads EXCEPT ![t].at = "tail"]
                /\ UNCHANGED catalogs
           ELSE /\ threads' =
                     [threads EXCEPT
                        ![t].issues =
                            IF Search(rule[1], Lower(sql))
                            THEN Append(th.issues, RuleIssue(th.checker, rule[2]))
                            ELSE th.issues]
                /\ catalogs' = [catalogs EXCEPT ![RuleList[th.checker]] = Tail(rules)]
        /\ UNCHANGED <<args, wanted_schema, report_vars, query_vars, pc, all_issues,
                       results, exists_locals, error, catalog_vars>>

\* for pattern, message in <rule list>: one iteration, or the end of the loop
Iterate(t) ==
    LET th == threads[t]
        rules == catalogs[RuleList[th.checker]]
        rule == Rules[RuleList[th.checker]][rules[th.k]]
    IN  /\ th.at = "loop"
        /\ IF th.k > Len(rules)
           THEN threads' = [threads EXCEPT ![t].at = "tail"]
           ELSE threads' =
                  [threads EXCEPT
                     ![t].k = th.k + 1,
                     ![t].issues =
                         IF Search(rule[1], Lower(sql))
                         THEN Append(th.issues, RuleIssue(th.checker, rule[2]))
                         ELSE th.issues]
        /\ UNCHANGED <<args, wanted_schema, report_vars, query_vars, catalogs, pc,
                       all_issues, results, exists_locals, error, catalog_vars>>

\* the checks after the loop, and the return
Finish(t) ==
    LET th == threads[t]
        low == Lower(sql)
        more ==
            IF th.checker = "validate_security"
            THEN (IF Search(CredentialPattern, low) THEN <<CredentialIssue>> ELSE <<>>)
            ELSE (IF Search(SelectFromPattern, low) /\ ~Search(LimitPattern, low)
                  THEN <<NoLimitIssue>> ELSE <<>>)
                 \o (IF Search(MutationPattern, low) /\ ~Search(WherePattern, low)
                     THEN <<NoWhereIssue>> ELSE <<>>)
    IN  /\ th.at = "tail"
        /\ threads' = [threads EXCEPT
                          ![t].issues = th.issues \o more,
                          ![t].returned = ValidationResult(TRUE, th.issues \o more),
                          ![t].at = "done"]
        /\ UNCHANGED <<args, wanted_schema, report_vars, query_vars, catalogs, pc,
                       all_issues, results, exists_locals, error, catalog_vars>>

\* validate_syntax and validate_naming read no rule list
RunBody(t) ==
    LET th == threads[t]
        r == IF th.checker = "validate_syntax" THEN validate_syntax(sql)
             ELSE validate_naming(sql)
    IN  /\ th.at = "body"
        /\ threads' = [threads EXCEPT ![t].issues = r.issues,
                                      ![t].returned = r,
                                      ![t].at = "done"]
        /\ UNCHANGED <<args, wanted_schema, report_vars, query_vars, catalogs, pc,
                       all_issues, results, exists_locals, error, catalog_vars>>

NextThreads ==
    \/ \E t \in Threads : Iterate(t)
    \/ \E t \in Threads : Finish(t)
    \/ \E t \in Threads : RunBody(t)

SpecThreads == InitThreads /\ [][NextThreads]_vars

(***************************************************************************)
(* Properties                                                              *)
(***************************************************************************)
ErrorFree(iss) == \A k \in 1..Len(iss) : iss[k].severity # "error"

CountOf(iss, sev, cat) ==
    Cardinality({k \in 1..Len(iss) : iss[k].severity = sev /\ iss[k].category = cat})

Blank(s) == \A k \in 1..Len(s) : CharAt(s, k) \in {" ", "\n", "\t", "\r"}

Done == pc = "done"

\* C1: the result of validate_sql is valid exactly when its issue list holds
\* no Error; the flag is recomputed from the list, so a statement whose only
\* findings are Info or Warning is valid even when validate_syntax said invalid.
C1_ValidityRecomputed ==
    Returned("validate_sql") =>
        (results["validate_sql"].is_valid <=> ErrorFree(results["validate_sql"].issues))

C1_Witness ==
    /\ Returned("validate_sql")
    /\ results["validate_sql"].is_valid
    /\ results["validate_sql"].issues # <<>>
    /\ ~results["validate_syntax"].is_valid

C3_TerminatorNeverAffectsValidity ==
    /\ (pc = "security" /\ ~Blank(sql)) =>
          LET with == validate_syntax(Strip(sql) \o ";")
              now == results["validate_syntax"]
          IN  /\ with.is_valid = now.is_valid
              /\ CountOf(now.issues, "info", "style")
                    = IF CharAt(Strip(sql), Len(Strip(sql))) = ";" THEN 0 ELSE 1
    /\ (Done /\ ~check_existence /\ ~Blank(sql)) =>
          LET with == Strip(sql) \o ";"
          IN  results["validate_sql"].is_valid
                 = ErrorFree(validate_syntax(with).issues
                             \o validate_security(with).issues
                             \o validate_performance(with).issues
                             \o validate_naming(with).issues)

\* C4: for empty or whitespace-only input the syntax checker returns exactly
\* one issue, an Error of category syntax, and nothing from the later checks;
\* validate_sql returns exactly that one Error and is_valid = false.
C4_EmptyInput ==
    Blank(sql) =>
        /\ Returned("validate_syntax") =>
              /\ Len(results["validate_syntax"].issues) = 1
              /\ results["validate_syntax"].issues[1].severity = "error"
              /\ results["validate_syntax"].issues[1].category = "syntax"
              /\ ~results["validate_syntax"].is_valid
        /\ Returned("validate_sql") =>
              /\ Len(results["validate_sql"].issues) = 1
              /\ results["validate_sql"].issues[1].severity = "error"
              /\ results["validate_sql"].issues[1].category = "syntax"
              /\ ~results["validate_sql"].is_valid

C4_Witness ==
    /\ Returned("validate_sql")
    /\ check_existence
    /\ Blank(sql)
    /\ Len(sql) = 2

\* the existence pass got the table listing and could read it
Verified == listing.status = "answered" /\ error = None

\* an exception of the existence pass was caught
CaughtFailure == error # None /\ pc # "raised"

PassIssues ==
    results["validate_syntax"].issues \o results["validate_security"].issues
        \o results["validate_performance"].issues \o results["validate_naming"].issues

\* C5 as stated: with check_existence set and a catalog whose lookup fails,
\* the result holds exactly one Warning and no Error of category existence,
\* whatever the text.
C5_OneWarningWhateverTheText ==
    (Done /\ check_existence /\ ~Verified) =>
        /\ CountOf(results["validate_sql"].issues, "warning", "existence") = 1
        /\ CountOf(results["validate_sql"].issues, "error", "existence") = 0

\* C5 as amended: exactly one Warning and no Error of category existence when
\* the text references at least one table; no existence issue at all when no
\* table identifier is extracted, since the catalog is then never asked.
C5_OneWarningWhenTablesReferenced ==
    (Done /\ check_existence /\ ~Verified) =>
        /\ CountOf(results["validate_sql"].issues, "warning", "existence")
              = IF tables = <<>> THEN 0 ELSE 1
        /\ CountOf(results["validate_sql"].issues, "error", "existence") = 0
        /\ CountOf(results["validate_sql"].issues, "info", "existence") = 0

C5_Witness ==
    /\ Done
    /\ check_existence
    /\ listing.status = "failed"
    /\ Len(tables) >= 2
    /\ CountOf(results["validate_sql"].issues, "warning", "existence") = 1

\* C6: a failed catalog lookup never aborts validate_sql and is never an
\* Error: the call returns, its issues begin with exactly the issues of the
\* four pure passes (what the call without check_existence returns) and go on
\* with Warning issues of category existence only.
C6_LookupFailureIsAdvisory ==
    /\ pc = "raised" => (connects = 0 /\ lookups = 0 /\ tables = <<>>)
    /\ (Done /\ ~check_existence) => results["validate_sql"].issues = PassIssues
    /\ (Done /\ check_existence /\ CaughtFailure) =>
          LET all == results["validate_sql"].issues
              n == Len(PassIssues)
          IN  /\ Len(all) > n
              /\ SubSeq(all, 1, n) = PassIssues
              /\ \A k \in (n + 1)..Len(all) :
                    all[k].severity = "warning" /\ all[k].category = "existence"

C6_Witness ==
    /\ Done
    /\ check_existence
    /\ CaughtFailure
    /\ driver = "psycopg2"
    /\ listing.status = "answered"
    /\ ~ErrorFree(PassIssues)

\* C7: when the existence pass extracts no table identifier it returns a
\* valid result without issues, and no connection is opened and no query
\* sent at any point of the call.
C7_NoTablesNoCatalog ==
    (Returned("validate_table_exists") /\ tables = <<>>) =>
        /\ results["validate_table_exists"] = [is_valid |-> TRUE, issues |-> <<>>]
        /\ connects = 0
        /\ lookups = 0
        /\ conn = [_connection |-> "None", _engine |-> "None"]
        /\ listing.status = "not asked"

C7_Witness ==
    /\ Done
    /\ Returned("validate_table_exists")
    /\ tables = <<>>
    /\ FoundTables(sql) # <<>>

\* C8: one existence pass connects at most once and asks for the table
\* listing at most once, however many identifiers it extracted; after a
\* failure nothing is tried again and exactly one Warning is recorded.
C8_OneLookupNoRetry ==
    /\ connects <= 1
    /\ lookups <= 1
    /\ (CaughtFailure /\ listing.status = "not asked") => lookups = 0
    /\ (Returned("validate_table_exists") /\ CaughtFailure) =>
          /\ Len(results["validate_table_exists"].issues) = 1
          /\ CountOf(results["validate_table_exists"].issues, "warning", "existence") = 1

C8_Witness ==
    /\ Done
    /\ Len(tables) >= 2
    /\ connects = 1
    /\ lookups = 1
    /\ listing.status = "failed"
    /\ Len(results["validate_table_exists"].issues) = 1

\* C9: when the catalog answers the listing with the table set T, the
\* existence pass emits exactly one Error of category existence for each
\* distinct extracted identifier that is not in T (names compared without
\* case) and no other issue.
C9_ErrorPerMissingTable ==
    (Returned("validate_table_exists") /\ listing.status = "answered") =>
        LET T == {Lower(n) : n \in listing.rows}
            missing == {tables[k] : k \in 1..Len(tables)} \ T
            iss == results["validate_table_exists"].issues
        IN  /\ Len(iss) = Cardinality(missing)
            /\ \A k \in 1..Len(iss) :
                  iss[k].severity = "error" /\ iss[k].category = "existence"
            /\ \A m \in missing : \E k \in 1..Len(iss) :
                  iss[k].message
                     = "Table '" \o m \o "' does not exist in schema '" \o schema \o "'"

\* the place of a message in a catalog (the first, where entries share one)
CatalogRank(catalog, message) ==
    IF \E k \in 1..Len(catalog) : catalog[k][2] = message
    THEN CHOOSE k \in 1..Len(catalog) :
            /\ catalog[k][2] = message
            /\ \A j \in 1..(k - 1) : catalog[j][2] # message
    ELSE 0

SyntaxRank(issue) ==
    CASE issue.message = "Empty SQL statement" -> 0
      [] issue.message = "Unbalanced single quotes" -> 2
      [] issue.message = "Missing semicolon at end of statement" -> 3
      [] issue.message = "SELECT without FROM clause" -> 4
      [] OTHER -> 1

SecurityRank(issue) ==
    IF issue.message = "Possible hardcoded password in query"
    THEN Len(SQL_INJECTION_PATTERNS) + 1
    ELSE CatalogRank(SQL_INJECTION_PATTERNS, issue.message)

PerformanceRank(issue) ==
    CASE issue.message = "No LIMIT clause on SELECT statement" ->
           Len(PERFORMANCE_PATTERNS) + 1
      [] issue.message = "DELETE/UPDATE without WHERE clause" ->
           Len(PERFORMANCE_PATTERNS) + 2
      [] OTHER -> CatalogRank(PERFORMANCE_PATTERNS, issue.message)

\* the number of checks that emit an issue with this message
Copies(message) ==
    LET inj == Cardinality({k \in 1..Len(SQL_INJECTION_PATTERNS) :
                              SQL_INJECTION_PATTERNS[k][2] = message})
        perf == Cardinality({k \in 1..Len(PERFORMANCE_PATTERNS) :
                               PERFORMANCE_PATTERNS[k][2] = message})
    IN  IF inj + perf = 0 THEN 1 ELSE inj + perf

\* the issues come in the order of the checks, each check at most once
InRankOrder(iss, Rank(_)) ==
    /\ \A j, k \in 1..Len(iss) : j < k => (Rank(iss[j]) > 0 /\ Rank(iss[j]) <= Rank(iss[k]))
    /\ \A j \in 1..Len(iss) :
          Cardinality({k \in 1..Len(iss) : iss[k].message = iss[j].message})
             <= Copies(iss[j].message)

HasMixedCase(identifier) ==
    \E k \in 1..(Len(identifier) - 1) :
        /\ CharAt(identifier, k) \in LowerSet
        /\ CharAt(identifier, k + 1) \in UpperSet

\* every mixed-case identifier the anchors find, as a set
MixedCaseFinds(text) ==
    UNION {LET ms == finditer(identifier_patterns[p], text)
           IN  {[pattern |-> p, start |-> ms[k].start, group |-> ms[k].group] :
                   k \in {j \in 1..Len(ms) : HasMixedCase(ms[j].group)}} :
           p \in 1..Len(identifier_patterns)}

\* that set in anchor-pattern order, then match position
FindsInOrder(text) ==
    LET finds == MixedCaseFinds(text)
    IN  CHOOSE seq \in Orderings(finds) :
           \A j, k \in 1..Len(seq) : j < k =>
              \/ seq[j].pattern < seq[k].pattern
              \/ (seq[j].pattern = seq[k].pattern /\ seq[j].start < seq[k].start)

\* C10: the issue list of validate_sql is the concatenation of the syntax,
\* security, performance and naming issues, then the existence issues if that
\* pass ran; inside a checker the issues follow the order of its checks:
\* security in catalog order then the credential check, performance in
\* catalog order then missing LIMIT then missing WHERE, naming by anchor
\* pattern and then by match position.
C10_IssueOrder ==
    /\ Done =>
          results["validate_sql"].issues
             = PassIssues \o (IF check_existence
                              THEN results["validate_table_exists"].issues ELSE <<>>)
    /\ pc = "security" => InRankOrder(results["validate_syntax"].issues, SyntaxRank)
    /\ pc = "performance" => InRankOrder(results["validate_security"].issues, SecurityRank)
    /\ pc = "naming" =>
          InRankOrder(results["validate_performance"].issues, PerformanceRank)
    /\ (pc = "exists_config" \/ (pc = "aggregate" /\ ~check_existence)) =>
          LET expected == FindsInOrder(sql)
              got == results["validate_naming"].issues
          IN  /\ Len(got) = Len(expected)
              /\ \A k \in 1..Len(got) :
                    /\ got[k].severity = "info"
                    /\ got[k].category = "naming"
                    /\ got[k].message
                          = "Identifier '" \o expected[k].group \o "' uses mixed case"

C10_Witness ==
    /\ Done
    /\ check_existence
    /\ results["validate_table_exists"].issues # <<>>
    /\ results["validate_syntax"].issues # <<>>
    /\ Len(results["validate_naming"].issues) = 2
    /\ LET finds == FindsInOrder(sql) IN finds[1].start > finds[2].start


\* the issues of category existence in an issue list
ExistenceIssues(iss) == {k \in 1..Len(iss) : iss[k].category = "existence"}

\* C11 as stated: the catalog is contacted, and existence issues are produced,
\* only when check_existence is set and the caller supplied a config; when the
\* existence pass runs its issues come after those of the other four passes.
C11_ExistenceOnlyWithHandle ==
    /\ (~check_existence \/ config = None) =>
          /\ connects = 0
          /\ lookups = 0
          /\ Done => ExistenceIssues(results["validate_sql"].issues) = {}
    /\ Done =>
          LET iss == results["validate_sql"].issues
          IN  \A j, k \in 1..Len(iss) :
                 (j < k /\ j \in ExistenceIssues(iss)) => k \in ExistenceIssues(iss)

\* C12 as stated: the issue list does not depend on the iteration order of
\* the set of extracted tables; any other order of the same set would have
\* given the existence pass the same issues in the same order.
C12_OrderIndependentOfSetIteration ==
    pc = "exists_finally" /\ error = None =>
        \A o \in Orderings(TableSet(sql)) :
            MissingTableIssues(o, existing_tables, schema, 1) = issues

\* C13: validate_security, validate_performance and validate_naming return
\* is_valid = true whatever they report.
C13_PassesAlwaysValid ==
    \A n \in {"validate_security", "validate_performance", "validate_naming"} :
        Returned(n) => results[n].is_valid = TRUE

\* the three passes have returned, with an Error among the security issues
\* and issues from the other two
C13_Witness ==
    /\ Returned("validate_naming")
    /\ ~ErrorFree(results["validate_security"].issues)
    /\ results["validate_security"].is_valid
    /\ results["validate_performance"].issues # <<>>
    /\ results["validate_performance"].is_valid
    /\ results["validate_naming"].issues # <<>>
    /\ results["validate_naming"].is_valid

\* the injection signatures of the catalog that match the text somewhere
SignatureHits(text) ==
    {k \in 1..Len(SQL_INJECTION_PATTERNS) :
        SearchI(SQL_INJECTION_PATTERNS[k][1], text)}

\* the Error issues of an issue list, in their order
ErrorsOf(iss) == SelectSeq(iss, LAMBDA i : i.severity = "error")

\* C14: validate_security reports one Error of category security, with the
\* parameter-binding suggestion, for each catalog signature that matches the
\* text, however often it matches, and these Errors stand in catalog order:
\* the Error of the n-th matching signature is the n-th Error.
C14_OneErrorPerSignature ==
    Returned("validate_security") =>
        LET errs == ErrorsOf(results["validate_security"].issues)
            hits == SignatureHits(sql)
        IN  /\ Len(errs) = Cardinality(hits)
            /\ \A k \in 1..Len(errs) :
                  /\ errs[k].category = "security"
                  /\ errs[k].suggestion =
                        "Use parameterized queries instead of string concatenation"
            /\ \A h \in hits :
                  errs[Cardinality({g \in hits : g <= h})].message =
                      SQL_INJECTION_PATTERNS[h][2]

\* the text holds the UNION signature twice and no other: one Error
C14_Witness ==
    /\ Returned("validate_security")
    /\ sql = " UNION SELECT b UNION SELECT b"
    /\ SignatureHits(sql) = {10}
    /\ Len(ErrorsOf(results["validate_security"].issues)) = 1

\* a password-like identifier assigned a non-empty quoted string literal:
\* (password|passwd|pwd) = '...'
CredentialAssignment ==
    Cat(<<Alt(<<Lit("password"), Lit("passwd"), Lit("pwd")>>), WS0, Lit("="), WS0,
          Lit("'"), Plus(NotCls({"'"})), Lit("'")>>)

\* C15 as stated: a text that assigns a non-empty quoted literal to a
\* password-like identifier gets a Warning of category security for the
\* hardcoded credential, and that finding is never an Error.
C15_CredentialLiteralWarned ==
    Returned("validate_security") =>
        LET iss == results["validate_security"].issues
        IN  /\ SearchI(CredentialAssignment, sql) =>
                  \E k \in 1..Len(iss) :
                     /\ iss[k].severity = "warning"
                     /\ iss[k].category = "security"
                     /\ iss[k].message = "Possible hardcoded password in query"
            /\ \A k \in 1..Len(iss) :
                  iss[k].message = "Possible hardcoded password in query"
                      => iss[k].severity # "error"

\* the word w stands at offset i of the lower-cased text as a whole word
KeywordAt(low, w, i) ==
    /\ i + Len(w) - 1 <= Len(low)
    /\ SubSeq(low, i, i + Len(w) - 1) = w
    /\ (i = 1 \/ CharAt(low, i - 1) \notin WordSet)
    /\ (i + Len(w) > Len(low) \/ CharAt(low, i + Len(w)) \notin WordSet)

HasMessage(iss, msg) == \E k \in 1..Len(iss) : iss[k].message = msg

\* the text holds SELECT followed by white space at offset i (a SELECT
\* keyword as the code looks for it)
SelectAt(low, i) ==
    /\ i + 6 <= Len(low)
    /\ SubSeq(low, i, i + 5) = "select"
    /\ CharAt(low, i + 6) \in SpaceSet

\* C16 as stated: on non-empty input validate_syntax reports 'SELECT without
\* FROM clause' exactly when some SELECT keyword has no FROM keyword anywhere
\* in the text after it, on the same line or on a later one.
C16_SelectWithoutFromAnywhere ==
    (Returned("validate_syntax") /\ ~Blank(sql)) =>
        LET low == Lower(sql)
        IN  HasMessage(results["validate_syntax"].issues, "SELECT without FROM clause")
            <=> \E i \in 1..Len(low) :
                    /\ SelectAt(low, i)
                    /\ ~\E j \in (i + 6)..Len(low) : KeywordAt(low, "from", j)

\* the single quotes of the text that no backslash directly precedes
UnescapedQuotes(text) ==
    {k \in 1..Len(text) :
        CharAt(text, k) = "'" /\ (k = 1 \/ CharAt(text, k - 1) # "\\")}

\* C17: on non-empty input validate_syntax reports 'Unbalanced single quotes'
\* exactly when the number of single quotes not directly preceded by a
\* backslash is odd.
C17_OddUnescapedQuotes ==
    (Returned("validate_syntax") /\ ~Blank(sql)) =>
        (HasMessage(results["validate_syntax"].issues, "Unbalanced single quotes")
            <=> Cardinality(UnescapedQuotes(sql)) % 2 = 1)

\* a text with an odd number of quotes of which one is escaped: no Error
C17_Witness ==
    /\ Returned("validate_syntax")
    /\ \E k \in 2..Len(sql) : CharAt(sql, k) = "'" /\ CharAt(sql, k - 1) = "\\"
    /\ Cardinality(UnescapedQuotes(sql)) = 2
    /\ Count(sql, "'") = 3
    /\ ~HasMessage(results["validate_syntax"].issues, "Unbalanced single quotes")

\* the offsets of the text that hold the character c
Offsets(text, c) == {k \in 1..Len(text) : CharAt(text, k) = c}

\* C18: on non-empty input validate_syntax reports unbalanced parentheses
\* exactly when the numbers of '(' and of ')' differ, whatever their order,
\* and the message of that Error gives both numbers.
C18_ParenthesisCounts ==
    (Returned("validate_syntax") /\ ~Blank(sql)) =>
        LET iss == results["validate_syntax"].issues
            opening == Cardinality(Offsets(sql, "("))
            closing == Cardinality(Offsets(sql, ")"))
            found == {k \in 1..Len(iss) :
                         SubSeq(iss[k].message, 1, 23) = "Unbalanced parentheses:"}
        IN  /\ (found # {}) <=> (opening # closing)
            /\ \A k \in found :
                  /\ iss[k].severity = "error"
                  /\ iss[k].message = "Unbalanced parentheses: " \o ToString(opening)
                         \o " open, " \o ToString(closing) \o " close"

\* ")(" closes before it opens, with equal counts: no Error
C18_Witness ==
    /\ Returned("validate_syntax")
    /\ sql = ")("
    /\ \A k \in 1..Len(results["validate_syntax"].issues) :
          results["validate_syntax"].issues[k].severity # "error"

\* the last character of the text that is not white space
LastVisible(text) ==
    LET shown == {k \in 1..Len(text) : CharAt(text, k) \notin SpaceSet}
    IN  CharAt(text, CHOOSE k \in shown : \A j \in shown : j <= k)

\* the place of a syntax issue among the four checks, by its message
CheckRank(issue) ==
    CASE SubSeq(issue.message, 1, 23) = "Unbalanced parentheses:" -> 1
      [] issue.message = "Unbalanced single quotes" -> 2
      [] issue.message = "Missing semicolon at end of statement" -> 3
      [] issue.message = "SELECT without FROM clause" -> 4
      [] OTHER -> 0

\* what each of the four checks looks at, taken on its own
CheckFires(text, n) ==
    CASE n = 1 -> Cardinality(Offsets(text, "(")) # Cardinality(Offsets(text, ")"))
      [] n = 2 -> Cardinality(UnescapedQuotes(text)) % 2 = 1
      [] n = 3 -> LastVisible(text) # ";"
      [] n = 4 -> SearchI(SelectWithoutFromPattern, Strip(text))

\* C19: on non-empty input each of the four syntax checks reports its issue
\* exactly when its own condition holds, whatever the other checks found,
\* and the issues stand in check order: parentheses, quotes, terminator,
\* SELECT/FROM.
C19_ChecksIndependent ==
    (Returned("validate_syntax") /\ ~Blank(sql)) =>
        LET iss == results["validate_syntax"].issues
        IN  /\ \A n \in 1..4 :
                  CheckFires(sql, n) <=> \E k \in 1..Len(iss) : CheckRank(iss[k]) = n
            /\ \A k \in 1..Len(iss) : CheckRank(iss[k]) \in 1..4
            /\ \A j, k \in 1..Len(iss) : j < k => CheckRank(iss[j]) < CheckRank(iss[k])

\* one call returns three Errors and the Info note
C19_Witness ==
    /\ Returned("validate_syntax")
    /\ Len(results["validate_syntax"].issues) = 4
    /\ Len(ErrorsOf(results["validate_syntax"].issues)) = 3
    /\ results["validate_syntax"].issues[3].severity = "info"

\* the text holds the word w as a whole word, in any letter case
HasKeyword(text, w) ==
    LET low == Lower(text)
    IN  \E i \in 1..Len(low) : KeywordAt(low, w, i)

\* C20: validate_performance reports 'DELETE/UPDATE without WHERE clause',
\* as a Warning, exactly when the text holds a DELETE or UPDATE keyword and
\* no WHERE keyword anywhere, whether or not earlier patterns matched.
C20_MutationWithoutWhere ==
    Returned("validate_performance") =>
        LET iss == results["validate_performance"].issues
            found == {k \in 1..Len(iss) :
                         iss[k].message = "DELETE/UPDATE without WHERE clause"}
        IN  /\ (found # {}) <=>
                  /\ HasKeyword(sql, "delete") \/ HasKeyword(sql, "update")
                  /\ ~HasKeyword(sql, "where")
            /\ Cardinality(found) <= 1
            /\ \A k \in found : iss[k].severity = "warning"

\* the Warning comes after an earlier pattern of the catalog matched
C20_Witness ==
    /\ Returned("validate_performance")
    /\ Len(results["validate_performance"].issues) >= 2
    /\ HasMessage(results["validate_performance"].issues,
                  "SELECT * can be inefficient, specify columns")
    /\ HasMessage(results["validate_performance"].issues,
                  "DELETE/UPDATE without WHERE clause")

\* the text holds "select" and, at least one character further on, "from"
\* (SELECT and FROM as the code looks for them, here on any lines)
SelectThenFrom(low) ==
    \E i, j \in 1..Len(low) :
        /\ j >= i + 7
        /\ j + 3 <= Len(low)
        /\ SubSeq(low, i, i + 5) = "select"
        /\ SubSeq(low, j, j + 3) = "from"

\* C21 as stated: validate_performance reports 'No LIMIT clause on SELECT
\* statement', as an Info, exactly when the text holds a SELECT and a FROM
\* and no LIMIT keyword, also when SELECT and FROM stand on different lines.
C21_NoLimitOnSelectFrom ==
    Returned("validate_performance") =>
        LET iss == results["validate_performance"].issues
            found == {k \in 1..Len(iss) :
                         iss[k].message = "No LIMIT clause on SELECT statement"}
        IN  /\ (found # {}) <=>
                  (SelectThenFrom(Lower(sql)) /\ ~HasKeyword(sql, "limit"))
            /\ \A k \in found : iss[k].severity = "info"

\* C23: a text matching an injection signature makes validate_sql return
\* is_valid = false with an Error of category security, although
\* validate_security itself returned is_valid = true; if the text also holds
\* SELECT * FROM, the same result carries a Warning of category performance.
C23_InjectionInvalidates ==
    (Done /\ SignatureHits(sql) # {}) =>
        LET r == results["validate_sql"]
        IN  /\ r.is_valid = FALSE
            /\ CountOf(r.issues, "error", "security") >= 1
            /\ results["validate_security"].is_valid = TRUE
            /\ SearchI(Cat(<<Lit("select"), WS1, Lit("*"), WS1, Lit("from")>>), sql)
                  => CountOf(r.issues, "warning", "performance") >= 1

\* the statement of main()'s third test case, cut to the model's fragments:
\* SELECT * FROM users WHERE n = 'x' OR '1'='1'
C23_Witness ==
    /\ Done
    /\ sql = "SELECT * FROM users WHERE n = 'x' OR '1'='1'"
    /\ ~results["validate_sql"].is_valid
    /\ CountOf(results["validate_sql"].issues, "error", "security") = 1
    /\ CountOf(results["validate_sql"].issues, "warning", "performance") = 1

\* the categories the specification names
Categories == {"syntax", "security", "performance", "naming", "existence"}

\* C25 as stated: every issue a checker or validate_sql produces has a
\* category of the fixed set, and every issue of validate_syntax has the
\* category syntax.
C25_FixedCategories ==
    \A n \in DOMAIN results :
        \A k \in 1..Len(results[n].issues) :
            /\ results[n].issues[k].category \in Categories
            /\ n = "validate_syntax" => results[n].issues[k].category = "syntax"

\* C28: once validate_table_exists has returned, on every path, the
\* connection it created holds neither an open _connection nor an open
\* _engine, and none is open when validate_sql is done or has raised.
C28_ConnectionClosedOnReturn ==
    (Returned("validate_table_exists") \/ pc \in {"exists_return", "done", "raised"}) =>
        /\ conn._connection = None
        /\ conn._engine = None

\* the connection was open when the catalog failed the listing query, and
\* the pass has closed it before returning
C28_Witness ==
    /\ Returned("validate_table_exists")
    /\ connects = 1
    /\ lookups = 1
    /\ error = "query failed"
    /\ conn = NoConnection

\* the offsets at which anchor p, white space and an identifier stand
AnchorStarts(p, low) ==
    {i \in 0..Len(low) :
        Ends(Cat(<<identifier_patterns[p], IdentifierGroup>>), low, i) # {}}

\* the identifier that follows the anchor standing at offset i
IdentifierAfter(p, text, low, i) ==
    LET span == GroupSpan(identifier_patterns[p], low, i)
    IN  SubSeq(text, span[1] + 1, span[2])

\* every occurrence of a mixed-case identifier right after an anchor, with
\* the anchor, the offset and the identifier
MixedCaseOccurrences(text) ==
    LET low == Lower(text)
    IN  UNION {{[anchor |-> p, start |-> i,
                 identifier |-> IdentifierAfter(p, text, low, i)] :
                    i \in {s \in AnchorStarts(p, low) :
                              HasMixedCase(IdentifierAfter(p, text, low, s))}} :
               p \in 1..Len(identifier_patterns)}

NamingMessage(identifier) == "Identifier '" \o identifier \o "' uses mixed case"

\* C22: validate_naming reports one Info of category naming, naming
\* the identifier, for each occurrence of a mixed-case identifier right after
\* FROM, JOIN, INSERT INTO, UPDATE or CREATE TABLE, nothing else, and never
\* anything but Info.
C22_OneInfoPerOccurrence ==
    pc = "aggregate" =>
        LET iss == results["validate_naming"].issues
            occ == MixedCaseOccurrences(sql)
        IN  /\ Len(iss) = Cardinality(occ)
            /\ \A o \in occ : HasMessage(iss, NamingMessage(o.identifier))
            /\ \A k \in 1..Len(iss) :
                  iss[k].severity = "info" /\ iss[k].category = "naming"

(***************************************************************************)
(* The report                                                              *)
(***************************************************************************)
StartsWith(s, prefix) ==
    Len(s) >= Len(prefix) /\ SubSeq(s, 1, Len(prefix)) = prefix

HasText(s, part) ==
    \E i \in 0..(Len(s) - Len(part)) : SubSeq(s, i + 1, i + Len(part)) = part

\* the three kinds of line below the summary line
IsHeader(l) == StartsWith(l, "\n")
IsSuggestionLine(l) == StartsWith(l, "     ")
IsIssueLine(l) == StartsWith(l, "  ") /\ ~IsSuggestionLine(l)

\* the category a header line names
SectionName(l) == Lower(SubSeq(l, 2, Len(l) - 1))

\* the numbers of a set in ascending order
RECURSIVE Ascending(_)
Ascending(S) ==
    IF S = {} THEN <<>>
    ELSE LET m == CHOOSE x \in S : \A y \in S : x <= y
         IN  <<m>> \o Ascending(S \ {m})

Headers == {k \in 2..Len(lines) : IsHeader(lines[k])}

\* the header line that governs line k
SectionOf(k) == CHOOSE h \in Headers : h < k /\ \A g \in Headers : g < k => g <= h

\* the issue lines of the section of category c, top to bottom
IssueLinesOf(c) ==
    Ascending({k \in 2..Len(lines) :
                  /\ IsIssueLine(lines[k])
                  /\ \E h \in Headers : h < k
                  /\ SectionName(lines[SectionOf(k)]) = c})

\* C24: the report lists the category sections in alphabetical order whatever
\* the order of the issues, keeps inside a section the order of the issue
\* list, and renders every issue exactly once, with its suggestion line when
\* and only when it has a suggestion.
C24_SectionsSortedIssuesOnce ==
    report # None =>
        LET iss == result.issues
            cats == {iss[k].category : k \in 1..Len(iss)}
        IN  /\ \A g, h \in Headers :
                  g < h => StrLess(SectionName(lines[g]), SectionName(lines[h]))
            /\ {SectionName(lines[h]) : h \in Headers} = cats
            /\ \A k \in 2..Len(lines) :
                  \/ IsHeader(lines[k])
                  \/ IsIssueLine(lines[k]) /\ \E h \in Headers : h < k
                  \/ IsSuggestionLine(lines[k]) /\ IsIssueLine(lines[k - 1])
            /\ \A c \in cats :
                  LET at == IssueLinesOf(c)
                      of == SelectSeq(iss, LAMBDA i : i.category = c)
                  IN  /\ Len(at) = Len(of)
                      /\ \A j \in 1..Len(of) :
                            /\ lines[at[j]] = IssueLine(of[j])
                            /\ IF HasSuggestion(of[j])
                               THEN /\ at[j] < Len(lines)
                                    /\ lines[at[j] + 1] = SuggestionLine(of[j])
                               ELSE \/ at[j] = Len(lines)
                                    \/ ~IsSuggestionLine(lines[at[j] + 1])
            /\ report = JoinLines(lines)

\* a result whose first issue is of category style and whose report opens
\* with the section PERFORMANCE, holding an issue without and an issue with
\* a suggestion
C24_Witness ==
    /\ report # None
    /\ Len(result.issues) >= 3
    /\ result.issues[1].category = "style"
    /\ Len(lines) >= 5
    /\ lines[2] = "\nPERFORMANCE:"
    /\ IsIssueLine(lines[3])
    /\ IsIssueLine(lines[4])
    /\ IsSuggestionLine(lines[5])
    /\ \E k \in 6..Len(lines) : lines[k] = "\nSTYLE:"

CountOfSeverity(iss, sev) ==
    Cardinality({k \in 1..Len(iss) : iss[k].severity = sev})

\* the summary line agrees with the issue list of the formatted result
SummaryAgrees ==
    LET errors == CountOfSeverity(result.issues, "error")
        warnings == CountOfSeverity(result.issues, "warning")
        info == CountOfSeverity(result.issues, "info")
        summary == lines[1]
    IN  /\ HasText(summary, "failed") <=> errors > 0
        /\ HasText(summary, "passed") <=> errors = 0
        /\ HasText(summary, "No issues found") => result.issues = <<>>
        /\ HasText(summary, "failed") =>
              HasText(summary, "- " \o Str(errors) \o " error(s), ")
        /\ ~HasText(summary, "No issues found") =>
              HasText(summary, " " \o Str(warnings) \o " warning(s), "
                                   \o Str(info) \o " info")

\* C29 as stated: whichever result of this module is formatted, the summary
\* line says failed exactly when the result holds an Error, prints the numbers
\* of issues of each severity, and says No issues found only for an empty
\* issue list.
C29_SummaryAgreesForAnyResult == report # None => SummaryAgrees

\* C29 as amended: the same for the result of validate_sql, the result the
\* function is documented to take.
C29_SummaryAgreesForValidateSql ==
    (report # None /\ result = results["validate_sql"]) => SummaryAgrees

\* the result of validate_sql with an Error and a Warning is reported as failed
C29_Witness ==
    /\ report # None
    /\ result = results["validate_sql"]
    /\ CountOfSeverity(result.issues, "error") = 1
    /\ CountOfSeverity(result.issues, "warning") = 1
    /\ HasText(lines[1], "failed - 1 error(s), 1 warning(s), ")

\* C27: the catalog is asked for the tables of the schema the caller named,
\* and for those of the configuration's schema only when the caller named
\* none; a caller of validate_sql can name one.
C27_LookupInCallersSchema ==
    (lookups > 0 /\ wanted_schema # None) => schema = wanted_schema

\* the text has no LIMIT clause of its own that bounds the rows returned
Unbounded(text) == ~HasOuterLimit(text)

\* C30: execute_query called with limit > 0 returns at most limit rows; the
\* statement executed is the text with LIMIT <limit> appended unless the text
\* bounds its outer result itself; and was_limited goes with limit_applied =
\* limit, its absence with limit_applied = 0.
C30_AtMostLimitRows ==
    (pc = "query_done" /\ limit > 0) =>
        /\ query_result.row_count <= limit
        /\ Len(query_result.rows) <= limit
        /\ (query_result.success /\ Unbounded(sql)) =>
              final_sql = RStripChars(sql, {";"}) \o " LIMIT " \o Str(limit)
        /\ query_result.was_limited => query_result.limit_applied = limit
        /\ ~query_result.was_limited => query_result.limit_applied = 0

\* what a checker returns when it runs alone
Alone(checker, text) ==
    CASE checker = "validate_syntax" -> validate_syntax(text)
      [] checker = "validate_security" -> validate_security(text)
      [] checker = "validate_performance" -> validate_performance(text)
      [] checker = "validate_naming" -> validate_naming(text)

\* C26: however the steps of concurrent invocations of the pure checkers on
\* one text interleave, the rule catalogs stay as the module defined them and
\* every invocation returns the issue list it returns when run alone.
C26_InterleavingsAgree ==
    /\ catalogs = Loaded
    /\ \A t \in DOMAIN threads :
          threads[t].at = "done" =>
              threads[t].returned.issues = Alone(threads[t].checker, sql).issues

\* two concurrent invocations of validate_security on a text with two
\* injection signatures have both returned the two Errors
C26_Witness ==
    /\ DOMAIN threads = Threads
    /\ \A t \in Threads :
          /\ threads[t].checker = "validate_security"
          /\ threads[t].at = "done"
          /\ Len(threads[t].returned.issues) = 2
    /\ sql = " WHERE n = 'x' OR '1'='1' UNION SELECT b"

====
